---------------------------- MODULE Spec2Model ----------------------------
(***************************************************************************)
(* A model of src/src/quant_model.py (QuantGPT): the spiking activation    *)
(* with its lazily initialised scale, rectified causal attention with a    *)
(* key/value cache, the cache life cycle of QuantGPT.forward and the       *)
(* weight initialisation policy.                                           *)
(*                                                                         *)
(* Arithmetic.  Tensors hold integers; a vector is a sequence, a (T, C)    *)
(* tensor a sequence of T vectors (batch size 1).  A quotient is rounded   *)
(* down (\div) where the code divides floating-point numbers.  -infinity   *)
(* is the value NegInf, absorbing under addition and mapped to 0 by relu.  *)
(*                                                                         *)
(* A method whose later statements use, several times, a value that an     *)
(* earlier statement computed is written as a chain of operators, one per  *)
(* group of statements, each handing the values computed so far to the     *)
(* next as arguments.                                                      *)
(***************************************************************************)
EXTENDS Integers, Sequences, FiniteSets, TLC

VARIABLES
    rope_cache,   \* QuantGPT.rope_cache : None or the cos/sin table
    mask_cache,   \* QuantGPT.mask_cache : None or the boolean matrix
    kv_caches,    \* QuantGPT.kv_caches  : one [k, v] pair per layer, or <<>>
    acts,         \* the ParamHeaveside instances of the model, per layer
    device,       \* device type of the tensors handed to the model
    last,         \* the last call made to the model, how it ended, and the number
                  \* of times the key/value caches were built so far
    sess,         \* history: the one-token decode calls since the caches were built
    calls,        \* number of calls made so far
    ph,           \* a stand-alone ParamHeaveside instance
    phCall,       \* the last call made on ph and its result
    sd,           \* the last scaled_dot_product_attention call and its result
    iw            \* the module tree walk of model.apply(_init_weights)

vars == <<rope_cache, mask_cache, kv_caches, acts, device, last, sess, calls,
          ph, phCall, sd, iw>>

modelVars == <<rope_cache, mask_cache, kv_caches, acts, device, last, sess, calls>>

None == <<>>

(***************************************************************************)
(* Configuration (src.config.Config) of the model instance.                *)
(***************************************************************************)
NLayer    == 2      \* config.n_layer
NEmbd     == 2      \* config.n_embd
HeadSize  == 2      \* config.head_size, with n_head = n_query_groups = 1
BlockSize == 3      \* config.block_size
VocabSize == 2      \* config.padded_vocab_size

(***************************************************************************)
(* Bounds of the model.                                                    *)
(***************************************************************************)
MaxCalls == 2       \* forward calls made to one model instance
MaxRows  == 2       \* rows of a batch given to the stand-alone activation

NegInf == -1000000  \* float("-inf")

----------------------------------------------------------------------------
(* Vector helpers *)

Abs(n) == IF n < 0 THEN -n ELSE n

Min(a, b) == IF a <= b THEN a ELSE b

RECURSIVE SumTo(_, _)
\* f[1] + ... + f[n]
SumTo(f, n) == IF n = 0 THEN 0 ELSE f[n] + SumTo(f, n - 1)

Dot(a, b) == SumTo([c \in 1..Len(a) |-> a[c] * b[c]], Len(a))

\* a / d rounded to the nearest integer (halves up)
RDiv(a, d) == (2 * a + d) \div (2 * d)

\* F.linear(x, W) without bias for one row x: W is (out, in)
Linear(W, x) == [r \in 1..Len(W) |-> Dot(W[r], x)]

\* F.linear for a weight given as numerators W over the denominator den
LinearQ(W, den, x) == [r \in 1..Len(W) |-> RDiv(Dot(W[r], x), den)]

VecAdd(a, b) == [c \in 1..Len(a) |-> a[c] + b[c]]

----------------------------------------------------------------------------
(* AlphaInit and ParamHeaveside *)

\* AlphaInit.__init__ / ParamHeaveside.__init__: alpha = ones, zero_point given
NewParamHeaveside(size, beta) ==
    [alpha |-> [c \in 1..size |-> 1], initialized |-> FALSE,
     beta |-> beta, inits |-> 0]

\* AlphaInit._initialize without its assertion (a faulty variant)
initialize_unguarded(a, init_tensor) ==
    [ok |-> TRUE,
     a  |-> [a EXCEPT !.alpha = init_tensor, !.initialized = TRUE,
                      !.inits = a.inits + 1]]

\* AlphaInit._initialize: assert not initialized; copy; set the flag
initialize(a, init_tensor) ==
    IF a.initialized
    THEN [ok |-> FALSE, a |-> a]
    ELSE [ok |-> TRUE,
          a  |-> [a EXCEPT !.alpha = init_tensor, !.initialized = TRUE,
                           !.inits = a.inits + 1]]

\* 4 * tensor.abs().view(-1, size).mean(dim=0)
InitVal(x, size) ==
    [c \in 1..size |->
        (4 * SumTo([r \in 1..Len(x) |-> Abs(x[r][c])], Len(x))) \div Len(x)]

\* AlphaInit.initialize_wrapper
initialize_wrapper(a, x) == initialize(a, InitVal(x, Len(a.alpha)))

\* (y >= 0) in place of (y > 0) (a faulty variant)
PositiveOrZero(y) == IF y >= 0 THEN 1 ELSE 0

\* positive = (y > 0).float()
Positive(y) == IF y > 0 THEN 1 ELSE 0

\* if not alpha.initialized
NeedsInit(a) == ~a.initialized

\* Lines 78-80 of act_heaveside._uq.forward: out = alpha * positive, with alpha
\* as the lazy initialisation ini (the instance afterwards, and whether it
\* returned) left it.  a is the instance before the call.
HeavesideOut(ini, a, x) ==
    [ok  |-> ini.ok,
     a   |-> ini.a,
     out |-> [r \in 1..Len(x) |-> [c \in 1..Len(a.alpha) |->
                ini.a.alpha[c] * Positive(x[r][c] - a.beta[c])]]]

\* act_heaveside._uq.forward via ParamHeaveside.forward; x is a sequence of rows.
\* Returns the output, the instance afterwards and whether the call returned.
Heaveside(a, x) ==
    HeavesideOut(IF NeedsInit(a) THEN initialize_wrapper(a, x)
                                 ELSE [ok |-> TRUE, a |-> a],
                 a, x)


----------------------------------------------------------------------------
(* Parameters of the model instance: the weights of its linear layers.  The *)
(* weights of attn and fc are the numerators below over WDen.               *)

WDen == 4

\* NormedLinear.scale, learnable and 0.01 as constructed, is taken at the value
\* sqrt(2) / 4, so that the scale times a normalised weight of +-1/sqrt(2) is
\* +-1/ScaleDen
ScaleDen == 4

\* transformer.wte.weight: one row per token
Wte == << <<1, -2>>, <<-1, 2>> >>

\* CausalSelfAttention.attn.weight of layer l: rows q (2), k (2), v (2)
Wattn(l) ==
    IF l = 1
    THEN << <<1, 0>>, <<0, 1>>,   <<1, 1>>, <<0, 1>>,   <<3, -1>>, <<0, 1>> >>
    ELSE << <<0, 1>>, <<1, 0>>,   <<1, 0>>, <<1, 1>>,   <<1, 0>>, <<-1, 1>> >>

\* CausalSelfAttention.proj.weight of layer l (a NormedLinear)
WprojAttn(l) == IF l = 1 THEN << <<1, 0>>, <<0, 1>> >> ELSE << <<0, 1>>, <<1, 0>> >>

\* GptNeoxMLP.fc.weight of layer l
Wfc(l) == IF l = 1 THEN << <<1, -1>>, <<-1, 1>> >> ELSE << <<1, 0>>, <<-1, 1>> >>

\* GptNeoxMLP.proj.weight of layer l (a NormedLinear)
WprojMlp(l) == IF l = 1 THEN << <<0, 1>>, <<1, 0>> >> ELSE << <<1, 0>>, <<0, 1>> >>

\* lm_head.weight: one row per token
Wlm == << <<1, 0>>, <<0, 1>> >>

Sgn(n) == IF n > 0 THEN 1 ELSE IF n < 0 THEN -1 ELSE 0

\* NormedLinear.forward for one row x.  Column c of the weight is centred over
\* the output rows and divided by its L2 norm; with two output rows the centred
\* column is (d, -d), so the normalised one is (sgn d, -sgn d) / sqrt(2), and
\* scale times it is (sgn d, -sgn d) / ScaleDen.
NormedLinear(W, x) ==
    LET rows == Len(W)
        cols == Len(W[1])
        colsum(c) == SumTo([r \in 1..rows |-> W[r][c]], rows)
        weight == [r \in 1..rows |-> [c \in 1..cols |-> Sgn(rows * W[r][c] - colsum(c))]]
    IN  LinearQ(weight, ScaleDen, x)

----------------------------------------------------------------------------
(* Rotary position cache *)

\* cos and sin of p * pi / 2
Cos4(p) == CASE p % 4 = 0 -> 1 [] p % 4 = 1 -> 0 [] p % 4 = 2 -> -1 [] OTHER -> 0
Sin4(p) == CASE p % 4 = 0 -> 0 [] p % 4 = 1 -> 1 [] p % 4 = 2 -> 0 [] OTHER -> -1

\* build_rope_cache(seq_len, n_elem = HeadSize): theta = <<1>> for n_elem = 2;
\* the position-condensing ratio is taken to be 2/pi, so that the angle of
\* position p is p * pi / 2 and the table is integral.  Indexed by position.
build_rope_cache(seq_len) ==
    [p \in 0..(seq_len - 1) |-> [cos |-> <<Cos4(p)>>, sin |-> <<Sin4(p)>>]]

\* apply_rotary_emb_func(x, cos, sin, interleaved=False) for one row x at one
\* position: the two halves of x are rotated by the angle of the position.
apply_rotary_emb_func(x, cs) ==
    LET half == Len(x) \div 2
    IN  [c \in 1..Len(x) |->
            IF c <= half
            THEN x[c] * cs.cos[c] - x[c + half] * cs.sin[c]
            ELSE x[c - half] * cs.sin[c - half] + x[c] * cs.cos[c - half]]

----------------------------------------------------------------------------
(* Attention *)

\* F.relu on a score; -inf goes to 0
Relu(s) == IF s = NegInf \/ s < 0 THEN 0 ELSE s

\* score + bias with -inf absorbing
AddBias(s, b) == IF b = NegInf \/ s = NegInf THEN NegInf ELSE s + b

\* no causal bias at all (a faulty variant)
NoCausalBias(L, S) == [i \in 1..L |-> [j \in 1..S |-> 0]]

\* mask is None: temp_mask = ones(L, S).tril(); bias = -inf where not temp_mask
CausalBias(L, S) == [i \in 1..L |-> [j \in 1..S |-> IF j <= i THEN 0 ELSE NegInf]]

\* The additive bias of scaled_dot_product_attention for a mask
\* [kind |-> "none" | "bool" | "float", m |-> matrix].  For a boolean mask the
\* code fills the mask itself (line 438) and leaves attn_bias at zero.
AttnBias(L, S, mask) ==
    CASE mask.kind = "none"  -> CausalBias(L, S)
      [] mask.kind = "bool"  -> [i \in 1..L |-> [j \in 1..S |-> 0]]
      [] mask.kind = "float" -> [i \in 1..L |-> [j \in 1..S |-> AddBias(0, mask.m[i][j])]]

\* The mask tensor after the call: mask.masked_fill_(mask.logical_not(), -inf)
\* on a boolean tensor stores bool(-inf) = True where the mask was False.
MaskAfter(mask) ==
    IF mask.kind = "bool"
    THEN [mask EXCEPT !.m = [i \in 1..Len(mask.m) |->
                                [j \in 1..Len(mask.m[i]) |-> TRUE]]]
    ELSE mask

\* Lines 441-443: relu(q @ k^T * scale + attn_bias), scale = 1 / head_size
AttnWeight(q, k, attn_bias) ==
    [i \in 1..Len(q) |-> [j \in 1..Len(k) |->
        Relu(AddBias(Dot(q[i], k[j]) \div HeadSize, attn_bias[i][j]))]]

\* Lines 445-446: y = attn_weight @ v; also the mask tensor as the call left it
AttnOutput(attn_weight, v, mask) ==
    [attn_weight |-> attn_weight,
     y |-> [i \in 1..Len(attn_weight) |-> [c \in 1..Len(v[1]) |->
              SumTo([j \in 1..Len(v) |-> attn_weight[i][j] * v[j][c]], Len(v))]],
     mask |-> MaskAfter(mask)]

\* CausalSelfAttention.scaled_dot_product_attention for one head:
\* q is (L, hs), k and v are (S, hs)
scaled_dot_product_attention(q, k, v, mask) ==
    AttnOutput(AttnWeight(q, k, AttnBias(Len(q), Len(k), mask)), v, mask)

----------------------------------------------------------------------------
(* Key/value cache and the attention block *)

ActNames == {"encoder_input", "encoder_q", "encoder_k", "encoder_output", "act1", "act2"}

\* torch.roll(cache, -1, dims=1): slot j takes the content of slot j+1, the last
\* slot that of slot 0
Roll(cache) == [s \in 1..Len(cache) |-> cache[(s % Len(cache)) + 1]]

\* cache.index_copy_(1, index, source): index holds 0-based slots.  The number of
\* indices must equal the number of source rows; rows are copied in order and an
\* index out of range raises IndexError, the rows copied before it staying.
IndexCopy(cache, index, source) ==
    IF Len(index) # Len(source)
    THEN [ok |-> FALSE, t |-> cache]
    ELSE LET bad   == {n \in 1..Len(index) : index[n] >= Len(cache)}
             upto  == IF bad = {} THEN Len(index)
                      ELSE (CHOOSE n \in bad : \A m \in bad : n <= m) - 1
             hit(s) == {n \in 1..upto : index[n] = s - 1}
         IN  [ok |-> bad = {},
              t  |-> [s \in 1..Len(cache) |->
                        IF hit(s) = {} THEN cache[s]
                        ELSE source[CHOOSE n \in hit(s) : \A m \in hit(s) : m <= n]]]

\* input_pos[-1] >= max_seq_length
CacheOverflow(input_pos, max_seq_length) == input_pos[Len(input_pos)] >= max_seq_length

\* Lines 382-394 of CausalSelfAttention.forward: write k and v into the cache.
\* kv is the state of the layer's cache tensors afterwards, also when the write
\* raised; k and v are the tensors attention then reads.
WriteCache(kv_cache, input_pos, max_seq_length, k, v) ==
    LET over == CacheOverflow(input_pos, max_seq_length)
        pos  == IF over THEN <<max_seq_length - 1>> ELSE input_pos
        ck   == IF over THEN Roll(kv_cache.k) ELSE kv_cache.k
        cv   == IF over THEN Roll(kv_cache.v) ELSE kv_cache.v
        wk   == IndexCopy(ck, pos, k)
        wv   == IndexCopy(cv, pos, v)
    IN  IF ~wk.ok
        THEN [ok |-> FALSE,
              kv |-> IF over THEN kv_cache ELSE [kv_cache EXCEPT !.k = wk.t]]
        ELSE [ok |-> wv.ok, kv |-> [k |-> wk.t, v |-> wv.t]]

\* Lines 402-404 of CausalSelfAttention.forward: y = self.proj(y); the result.
\* new_k and new_v are the key and value of the call's own tokens.
AttentionResult(l, A1, e_k, v0, w, at, e_o) ==
    [ok |-> TRUE,
     A  |-> [A1 EXCEPT !["encoder_output"] = e_o.a],
     kv |-> w.kv,
     y  |-> [t \in 1..Len(e_o.out) |-> NormedLinear(WprojAttn(l), e_o.out[t])],
     new_k |-> e_k.out, new_v |-> v0,
     attn_weight |-> at.attn_weight, mask |-> at.mask]

\* Lines 398-401: y = self.encoder_output(y)
AttentionEncodeOutput(l, A1, e_k, v0, w, at) ==
    AttentionResult(l, A1, e_k, v0, w, at, Heaveside(A1["encoder_output"], at.y))

\* Line 396: attention over the cache tensors if there is a cache, over the
\* call's own keys and values otherwise.  A cache write that raised ends the call.
AttentionAttend(l, A1, e_q, e_k, v0, w, mask) ==
    IF ~w.ok
    THEN [ok |-> FALSE, A |-> A1, kv |-> w.kv]
    ELSE AttentionEncodeOutput(l, A1, e_k, v0, w,
            scaled_dot_product_attention(e_q.out,
                                         IF w.kv = None THEN e_k.out ELSE w.kv.k,
                                         IF w.kv = None THEN v0 ELSE w.kv.v,
                                         mask))

\* Lines 382-394: the cache write, if a cache is given
AttentionCache(l, A, e_in, e_q, e_k, v0, max_seq_length, mask, input_pos, kv_cache) ==
    AttentionAttend(l,
        [A EXCEPT !["encoder_input"] = e_in.a, !["encoder_q"] = e_q.a,
                  !["encoder_k"] = e_k.a],
        e_q, e_k, v0,
        IF kv_cache = None
        THEN [ok |-> TRUE, kv |-> None]
        ELSE WriteCache(kv_cache, input_pos, max_seq_length, e_k.out, v0),
        mask)

\* Lines 371-372: q = self.encoder_q(q); k = self.encoder_k(k)
AttentionEncodeQK(l, A, e_in, qr, kr, v0, max_seq_length, mask, input_pos, kv_cache) ==
    AttentionCache(l, A, e_in, Heaveside(A["encoder_q"], qr),
                   Heaveside(A["encoder_k"], kr), v0,
                   max_seq_length, mask, input_pos, kv_cache)

\* Lines 344-370: qkv is split into q, k, v (one head, one query group) and
\* the rotary embedding is applied to q and k
AttentionRope(l, A, e_in, qkv, rope, max_seq_length, mask, input_pos, kv_cache) ==
    AttentionEncodeQK(l, A, e_in,
        [t \in 1..Len(qkv) |->
            apply_rotary_emb_func([c \in 1..HeadSize |-> qkv[t][c]], rope[t])],
        [t \in 1..Len(qkv) |->
            apply_rotary_emb_func([c \in 1..HeadSize |-> qkv[t][HeadSize + c]], rope[t])],
        [t \in 1..Len(qkv) |-> [c \in 1..HeadSize |-> qkv[t][2 * HeadSize + c]]],
        max_seq_length, mask, input_pos, kv_cache)

\* Line 341: qkv = self.attn(x)
AttentionQkv(l, A, e_in, rope, max_seq_length, mask, input_pos, kv_cache) ==
    AttentionRope(l, A, e_in,
        [t \in 1..Len(e_in.out) |-> LinearQ(Wattn(l), WDen, e_in.out[t])],
        rope, max_seq_length, mask, input_pos, kv_cache)

\* CausalSelfAttention.forward of layer l.  A holds the layer's activation
\* instances, x is (T, n_embd), rope the T selected rows of the rotary table,
\* kv_cache is None or the layer's pair.  Line 340: x = self.encoder_input(x).
CausalSelfAttention(l, A, x, rope, max_seq_length, mask, input_pos, kv_cache) ==
    AttentionQkv(l, A, Heaveside(A["encoder_input"], x),
                 rope, max_seq_length, mask, input_pos, kv_cache)

\* Line 460 of GptNeoxMLP.forward: return self.proj(x)
MlpResult(l, A, a1, a2) ==
    [A |-> [A EXCEPT !["act1"] = a1.a, !["act2"] = a2.a],
     y |-> [t \in 1..Len(a2.out) |-> NormedLinear(WprojMlp(l), a2.out[t])]]

\* Lines 458-459: x = self.fc(x); x = self.act2(x)
MlpExpand(l, A, a1) ==
    MlpResult(l, A, a1,
        Heaveside(A["act2"],
                  [t \in 1..Len(a1.out) |-> LinearQ(Wfc(l), WDen, a1.out[t])]))

\* GptNeoxMLP.forward of layer l.  Line 457: x = self.act1(x).
GptNeoxMLP(l, A, x) == MlpExpand(l, A, Heaveside(A["act1"], x))

\* MyNorm.forward: return x
MyNorm(x) == x

\* config.norm_class of the final norm transformer.ln_f: the identity
ln_f(x) == x

\* Line 305 of Block.forward: x = x + self.mlp(self.norm_2(x)); the result
BlockResult(at, x1, m) ==
    [ok |-> TRUE, A |-> m.A, kv |-> at.kv,
     x  |-> [t \in 1..Len(x1) |-> VecAdd(x1[t], m.y[t])],
     new_k |-> at.new_k, new_v |-> at.new_v, mask |-> at.mask]

\* Line 305: the feed-forward part on x1 = x + h
BlockMlp(l, at, x1) == BlockResult(at, x1, GptNeoxMLP(l, at.A, MyNorm(x1)))

\* Line 304: x = x + h, unless attention raised
BlockResidual(l, x, at) ==
    IF ~at.ok
    THEN [ok |-> FALSE, A |-> at.A, kv |-> at.kv]
    ELSE BlockMlp(l, at, [t \in 1..Len(x) |-> VecAdd(x[t], at.y[t])])

\* Block.forward of layer l with parallel_residual = False
Block(l, A, x, rope, max_seq_length, mask, input_pos, kv_cache) ==
    BlockResidual(l, x,
        CausalSelfAttention(l, A, MyNorm(x), rope, max_seq_length, mask,
                            input_pos, kv_cache))

----------------------------------------------------------------------------
(* QuantGPT *)

Layers == 1..NLayer

\* QuantGPT.build_mask_cache: torch.tril(ones(block_size, block_size)), indexed
\* [query position + 1][key position + 1]
build_mask_cache == [i \in 1..BlockSize |-> [j \in 1..BlockSize |-> j <= i]]

\* QuantGPT.build_kv_caches: per layer a zero k and a zero v of max_seq_length slots
build_kv_caches(max_seq_length) ==
    [l \in Layers |->
        [k |-> [s \in 1..max_seq_length |-> [c \in 1..HeadSize |-> 0]],
         v |-> [s \in 1..max_seq_length |-> [c \in 1..HeadSize |-> 0]]]]

\* the caches rebuilt on every decode call (a faulty variant)
KvCachesAlwaysBuilt(caches, max_seq_length) == build_kv_caches(max_seq_length)

\* self.kv_caches or self.build_kv_caches(x, max_seq_length, ...)
KvCachesOrBuild(caches, max_seq_length) ==
    IF caches # <<>> THEN caches ELSE build_kv_caches(max_seq_length)

\* the mask cache built in either mode (a faulty variant)
NeedMaskCacheAnyMode(use_kv_cache, cache) == cache = None

\* use_kv_cache and self.mask_cache is None
NeedMaskCache(use_kv_cache, cache) == use_kv_cache /\ cache = None

\* the check of max_seq_length against the block size left out (a faulty variant)
AssertionsPassLax(T, max_seq_length, use_kv_cache) ==
    /\ use_kv_cache => max_seq_length >= T
    /\ BlockSize >= T

\* The three assertions of QuantGPT.forward (lines 187-192)
AssertionsPass(T, max_seq_length, use_kv_cache) ==
    /\ use_kv_cache => max_seq_length >= T
    /\ max_seq_length <= BlockSize
    /\ BlockSize >= T

\* if max_seq_length is None: max_seq_length = block_size.  The argument is
\* None or <<n>>.
EffectiveMax(msl) == IF msl = None THEN BlockSize ELSE msl[1]

\* cos[:T] used in decode mode too (a faulty variant)
SelectRopeFirstRows(table, input_pos, T) == [t \in 1..T |-> table[t - 1]]

\* Lines 202-211: the rows of the rotary table a call uses,
\* cos.index_select(0, input_pos) in decode mode and cos[:T] otherwise
SelectRope(table, input_pos, T) ==
    IF input_pos # None
    THEN [t \in 1..T |-> table[input_pos[t]]]
    ELSE [t \in 1..T |-> table[t - 1]]

\* every ParamHeaveside instance of the model has its alpha initialised
AllInitialized(A) == \A l \in Layers : \A n \in ActNames : A[l][n].initialized

\* Lines 219 and 224: the hidden state, the activation instances and the caches
\* after block l returned b, or raised
AfterBlock(l, st, c, b) ==
    [ok        |-> b.ok,
     x         |-> IF b.ok THEN b.x ELSE st.x,
     acts      |-> [st.acts EXCEPT ![l] = b.A],
     kv_caches |-> IF c.use_kv_cache
                   THEN [st.kv_caches EXCEPT ![l] = b.kv]
                   ELSE st.kv_caches,
     fresh     |-> IF b.ok
                   THEN Append(st.fresh, [k |-> b.new_k, v |-> b.new_v])
                   ELSE st.fresh,
     \* the mask tensor is one object handed to every block: what a block's
     \* attention wrote into it is what the next block is given
     mask      |-> IF b.ok THEN b.mask ELSE st.mask]

RECURSIVE RunLayers(_, _, _)
\* The loop over the blocks (lines 217-224), from layer l on.  st carries the
\* hidden state, the activation instances, the caches and the mask tensor; c
\* the arguments that stay the same for every block.  A block that raises ends the loop; what it
\* and the blocks before it changed in place stays changed.
RunLayers(l, st, c) ==
    IF l > NLayer \/ ~st.ok
    THEN st
    ELSE RunLayers(l + 1,
            AfterBlock(l, st, c,
                Block(l, st.acts[l], st.x, c.rope, c.max_seq_length, st.mask,
                      c.input_pos,
                      IF c.use_kv_cache THEN st.kv_caches[l] ELSE None)),
            c)

\* the selection a view of the cache, as mask_cache[:, :, p:p+T, :max_seq_length]
\* would be: what is written into the selection is written into the cache
\* (a faulty variant)
MaskCacheView(cache, input_pos, mask) ==
    IF mask.kind = "bool"
    THEN [i \in 1..Len(cache) |-> [j \in 1..Len(cache[i]) |->
            IF \E t \in 1..Len(mask.m) : input_pos[t] + 1 = i /\ j <= Len(mask.m[t])
            THEN mask.m[CHOOSE t \in 1..Len(mask.m) : input_pos[t] + 1 = i][j]
            ELSE cache[i][j]]]
    ELSE cache

\* self.mask_cache after a call that left its mask tensor as mask.
\* index_select (line 207) returns a new tensor and line 208 slices that new
\* tensor, so the writes of masked_fill_ (line 438) stay in the selection.
MaskCacheAfter(cache, input_pos, mask) == cache

\* Lines 202-212: the mask of a call,
\* mask_cache.index_select(2, input_pos)[:, :, :, :max_seq_length] in decode mode
\* and None otherwise
SelectMask(cache, input_pos, T, max_seq_length) ==
    IF input_pos # None
    THEN [kind |-> "bool",
          m |-> [t \in 1..T |-> [j \in 1..Min(max_seq_length, BlockSize) |->
                                    cache[input_pos[t] + 1][j]]]]
    ELSE [kind |-> "none", m |-> None]

\* Lines 226-228: the final norm and the head, or the error of the block that
\* raised; the state of the model after the call
ForwardResult(rope1, mask1, input_pos, run) ==
    [status     |-> IF run.ok THEN "ok" ELSE "IndexError",
     rope_cache |-> rope1,
     mask_cache |-> MaskCacheAfter(mask1, input_pos, run.mask),
     kv_caches  |-> run.kv_caches,
     acts       |-> run.acts,
     logits     |-> IF run.ok
                    THEN [t \in 1..Len(run.x) |-> Linear(Wlm, ln_f(run.x)[t])]
                    ELSE None,
     fresh      |-> run.fresh,
     mask       |-> run.mask,
     entered    |-> TRUE]

\* Lines 202-224: the selection of the rotary rows and of the mask (cos.index_select
\* raises for a position outside the table), the embedding, the caches, the blocks
ForwardBlocks(m, idx, max_seq_length, input_pos, rope1, mask1) ==
    IF input_pos # None /\ \E n \in 1..Len(idx) : input_pos[n] >= BlockSize
    THEN [status |-> "IndexError", rope_cache |-> rope1, mask_cache |-> mask1,
          kv_caches |-> m.kv_caches, acts |-> m.acts, logits |-> None,
          fresh |-> <<>>, mask |-> None, entered |-> FALSE]
    ELSE ForwardResult(rope1, mask1, input_pos,
            RunLayers(1,
                [ok |-> TRUE,
                 x |-> [t \in 1..Len(idx) |-> Wte[idx[t] + 1]],
                 acts |-> m.acts,
                 kv_caches |-> IF input_pos # None
                               THEN KvCachesOrBuild(m.kv_caches, max_seq_length)
                               ELSE m.kv_caches,
                 fresh |-> <<>>,
                 mask |-> SelectMask(mask1, input_pos, Len(idx), max_seq_length)],
                [rope |-> SelectRope(rope1, input_pos, Len(idx)),
                 max_seq_length |-> max_seq_length,
                 input_pos |-> input_pos,
                 use_kv_cache |-> input_pos # None]))

\* the rope cache and the mask cache built before the assertions are made
\* (a faulty variant)
ForwardBuildsFirst(m, idx, max_seq_length, input_pos) ==
    IF ~AssertionsPass(Len(idx), max_seq_length, input_pos # None)
    THEN [status |-> "AssertionError",
          rope_cache |-> IF m.rope_cache = None
                         THEN build_rope_cache(BlockSize) ELSE m.rope_cache,
          mask_cache |-> IF NeedMaskCache(input_pos # None, m.mask_cache)
                         THEN build_mask_cache ELSE m.mask_cache,
          kv_caches |-> m.kv_caches, acts |-> m.acts,
          logits |-> None, fresh |-> <<>>, mask |-> None, entered |-> FALSE]
    ELSE ForwardBlocks(m, idx, max_seq_length, input_pos,
            IF m.rope_cache = None THEN build_rope_cache(BlockSize) ELSE m.rope_cache,
            IF NeedMaskCache(input_pos # None, m.mask_cache)
            THEN build_mask_cache ELSE m.mask_cache)

\* Lines 181-200: the assertions, then the rope cache and the mask cache are
\* built if they are missing
ForwardChecked(m, idx, max_seq_length, input_pos) ==
    IF ~AssertionsPass(Len(idx), max_seq_length, input_pos # None)
    THEN [status |-> "AssertionError", rope_cache |-> m.rope_cache,
          mask_cache |-> m.mask_cache, kv_caches |-> m.kv_caches, acts |-> m.acts,
          logits |-> None, fresh |-> <<>>, mask |-> None, entered |-> FALSE]
    ELSE ForwardBlocks(m, idx, max_seq_length, input_pos,
            IF m.rope_cache = None THEN build_rope_cache(BlockSize) ELSE m.rope_cache,
            IF NeedMaskCache(input_pos # None, m.mask_cache)
            THEN build_mask_cache ELSE m.mask_cache)

\* QuantGPT.forward(idx, max_seq_length, input_pos) on the model state m
\* (a record of rope_cache, mask_cache, kv_caches, acts).  idx is a sequence of
\* tokens, msl None or <<n>>, input_pos None or a sequence of positions.
\* status is "ok", "AssertionError" or "IndexError"; logits is None unless "ok";
\* fresh holds, per layer, the key and value of the call's own tokens; mask is
\* the call's mask tensor as the blocks left it; entered says whether the loop
\* over the blocks was reached.
Forward(m, idx, msl, input_pos) ==
    ForwardChecked(m, idx, EffectiveMax(msl), input_pos)

----------------------------------------------------------------------------
(* The model instance as a state machine *)

Tokens == 0..(VocabSize - 1)

\* every idx tensor of 1 to BlockSize + 1 tokens
AllInputs == UNION {[1..n -> Tokens] : n \in 1..(BlockSize + 1)}

\* every max_seq_length argument: None (not supplied) or <<n>>, n in 1..BlockSize + 1
AllMaxSeqArgs == {None} \cup {<<n>> : n \in 1..(BlockSize + 1)}

\* the idx tensors of the calls of a session: single tokens, a two-token and a
\* three-token prompt
Inputs == {<<0>>, <<1>>, <<1, 0>>, <<0, 1, 1>>}

\* the max_seq_length arguments of a session: not supplied, or a window one
\* shorter than the block
MaxSeqArgs == {None, <<BlockSize - 1>>}

\* every idx tensor of n tokens
InputsOfLen(n) == [1..n -> Tokens]

\* the input_pos tensors: torch.arange(p, p + T) for a start position p
Arange(p, T) == [t \in 1..T |-> p + t - 1]

Idle == [op |-> "none"]

\* the variables of a part of the program that a specification does not run
IdlePh   == ph = Idle /\ phCall = Idle
IdleSd   == sd = Idle
IdleIw   == iw = Idle

modelState == [rope_cache |-> rope_cache, mask_cache |-> mask_cache,
               kv_caches |-> kv_caches, acts |-> acts]

\* the ParamHeaveside instances of the blocks as constructed: encoder_q and
\* encoder_k of head_size channels, the others of n_embd (= intermediate_size)
FreshActs ==
    [l \in Layers |-> [n \in ActNames |->
        NewParamHeaveside(IF n \in {"encoder_q", "encoder_k"} THEN HeadSize ELSE NEmbd,
                          [c \in 1..NEmbd |-> 0])]]

\* QuantGPT.__init__ (lines 150-152) and the ParamHeaveside instances of its blocks
ModelInit ==
    /\ rope_cache = None
    /\ mask_cache = None
    /\ kv_caches = <<>>
    /\ acts = FreshActs
    /\ device \in {"cpu", "xla"}
    /\ last = [op |-> "none", builds |-> 0]
    /\ sess = [valid |-> TRUE, toks |-> <<>>, outs |-> <<>>]
    /\ calls = 0

\* The history of the running decode session after a forward call with result r:
\* it grows by a one-token call at the next position that does not overflow the
\* cache, and is void after any other call that reached the caches.
SessAfter(r, idx, max_seq_length, input_pos) ==
    IF input_pos = None \/ ~r.entered
    THEN sess
    ELSE IF /\ sess.valid
            /\ r.status = "ok"
            /\ Len(idx) = 1
            /\ input_pos[1] = Len(sess.toks)
            /\ input_pos[1] < max_seq_length
         THEN [valid |-> TRUE, toks |-> Append(sess.toks, idx[1]),
               outs |-> Append(sess.outs, r.logits[1])]
         ELSE [valid |-> FALSE, toks |-> <<>>, outs |-> <<>>]

\* A call of QuantGPT.forward
forward(idx, msl, input_pos) ==
    /\ \E r \in {Forward(modelState, idx, msl, input_pos)} :
        /\ calls' = calls + 1
        /\ rope_cache' = r.rope_cache
        /\ mask_cache' = r.mask_cache
        /\ kv_caches' = r.kv_caches
        /\ acts' = r.acts
        /\ last' = [op |-> "forward", idx |-> idx, msl |-> msl, input_pos |-> input_pos,
                    status |-> r.status, logits |-> r.logits, fresh |-> r.fresh,
                    mask |-> r.mask,
                    warm |-> AllInitialized(acts),
                    built |-> r.entered /\ input_pos # None /\ kv_caches = <<>>,
                    builds |-> IF r.entered /\ input_pos # None /\ kv_caches = <<>>
                               THEN last.builds + 1 ELSE last.builds]
        /\ sess' = SessAfter(r, idx, EffectiveMax(msl), input_pos)
        /\ UNCHANGED <<device, ph, phCall, sd, iw>>

\* QuantGPT.reset_cache
reset_cache ==
    /\ kv_caches' = <<>>
    /\ IF mask_cache # None /\ device = "xla"
       THEN rope_cache' = None /\ mask_cache' = None
       ELSE UNCHANGED <<rope_cache, mask_cache>>
    /\ last' = [op |-> "reset_cache", builds |-> last.builds]
    /\ sess' = [valid |-> TRUE, toks |-> <<>>, outs |-> <<>>]
    /\ UNCHANGED <<acts, device, calls, ph, phCall, sd, iw>>

Init == ModelInit /\ IdlePh /\ IdleSd /\ IdleIw

\* A session: at most MaxCalls forward calls, in either mode, and cache resets
Next ==
    \/ /\ calls < MaxCalls
       /\ \E idx \in Inputs, msl \in MaxSeqArgs :
             \/ forward(idx, msl, None)
             \/ \E p \in 0..BlockSize : forward(idx, msl, Arange(p, Len(idx)))
    \/ reset_cache

Spec == Init /\ [][Next]_vars

----------------------------------------------------------------------------
(* Properties of the session specification Spec *)

\* a step that is a call of forward / a decode call / a full-sequence call
ForwardStep == calls' = calls + 1 /\ last'.op = "forward"
DecodeStep  == ForwardStep /\ last'.input_pos # None
FullStep    == ForwardStep /\ last'.input_pos = None

\* the logits of a full-sequence call (no input_pos, no cache) over toks on a
\* model whose activation instances are A
FullLogits(A, toks) ==
    Forward([rope_cache |-> None, mask_cache |-> None, kv_caches |-> <<>>, acts |-> A],
            toks, None, None).logits

ShiftedLeft(new, old, fresh, max_seq_length) ==
    /\ Len(new.k) = Len(old.k) /\ Len(new.v) = Len(old.v)
    /\ max_seq_length <= Len(old.k)
    /\ \A j \in 1..(max_seq_length - 1) : new.k[j] = old.k[j + 1] /\ new.v[j] = old.v[j + 1]
    /\ new.k[max_seq_length] = fresh.k[1] /\ new.v[max_seq_length] = fresh.v[1]

\* a one-token decode call that passes the three assertions and whose position
\* is >= max_seq_length
OverflowStep ==
    /\ DecodeStep
    /\ Len(last'.idx) = 1
    /\ last'.status # "AssertionError"
    /\ last'.input_pos[1] >= EffectiveMax(last'.msl)

EvictedAndWritten ==
    /\ last'.status = "ok"
    /\ Len(kv_caches') = NLayer
    /\ \A l \in Layers :
          ShiftedLeft(kv_caches'[l],
                      KvCachesOrBuild(kv_caches, EffectiveMax(last'.msl))[l],
                      last'.fresh[l], EffectiveMax(last'.msl))

\* C2: every one-token decode call whose position is >= max_seq_length shifts the
\* key/value cache of every layer left by one slot and writes the new key/value
\* at slot max_seq_length - 1.
C2_EvictionOnOverflow == [][OverflowStep => EvictedAndWritten]_vars

\* C2, inside the block: the same for positions below the block size
C2_EvictionInsideBlock ==
    [][(OverflowStep /\ last'.input_pos[1] < BlockSize) => EvictedAndWritten]_vars

\* a state after an eviction that moved a nonzero key one slot to the left
C2_WitnessInsideBlock ==
    /\ last.op = "forward" /\ last.status = "ok" /\ last.input_pos # None
    /\ Len(last.idx) = 1
    /\ last.input_pos[1] >= EffectiveMax(last.msl)
    /\ \E l \in Layers : \E c \in 1..HeadSize : kv_caches[l].k[1][c] # 0

\* C2, the failing call: a one-token decode call at a position >= max_seq_length
\* ended with IndexError on a model whose caches an earlier decode call built
C2_WitnessIndexError ==
    /\ last.op = "forward" /\ last.status = "IndexError" /\ last.input_pos # None
    /\ Len(last.idx) = 1
    /\ last.input_pos[1] >= EffectiveMax(last.msl)
    /\ Len(kv_caches) = NLayer

\* C3: a forward call without input_pos leaves kv_caches as it was, whatever
\* calls came before, and builds no mask cache.
C3_FullCallLeavesCaches ==
    [][FullStep => (kv_caches' = kv_caches /\ mask_cache' = mask_cache)]_vars

\* C3 witness: a full-sequence call returned while the caches held a nonzero key
C3_Witness ==
    /\ last.op = "forward" /\ last.input_pos = None /\ last.status = "ok"
    /\ kv_caches # <<>>
    /\ \E l \in Layers : \E c \in 1..HeadSize : kv_caches[l].k[1][c] # 0

\* the slots of a cache tensor that a decode call at input_pos does not write
\* keep their content
KeptSlots(new, old, input_pos) ==
    /\ Len(new) = Len(old)
    /\ \A s \in 1..Len(old) :
          (\A n \in 1..Len(input_pos) : input_pos[n] # s - 1) => new[s] = old[s]

\* C4: the first decode call that returns after construction or reset_cache
\* builds one key/value pair per layer, of max_seq_length slots, and the mask
\* cache; a later decode call keeps the caches it finds (same length, the slots
\* it does not write unchanged, the same mask cache); reset_cache empties
\* kv_caches, so that the next decode call builds them again.
C4_CacheLifeCycle ==
    [][/\ (DecodeStep /\ last'.status = "ok" /\ kv_caches = <<>>) =>
            /\ Len(kv_caches') = NLayer
            /\ \A l \in Layers :
                  /\ Len(kv_caches'[l].k) = EffectiveMax(last'.msl)
                  /\ Len(kv_caches'[l].v) = EffectiveMax(last'.msl)
            /\ mask_cache' = build_mask_cache
       /\ (DecodeStep /\ kv_caches # <<>>) =>
            /\ Len(kv_caches') = NLayer
            /\ mask_cache' = mask_cache
            /\ \A l \in Layers :
                  IF last'.status # "AssertionError"
                     /\ CacheOverflow(last'.input_pos, EffectiveMax(last'.msl))
                  THEN /\ Len(kv_caches'[l].k) = Len(kv_caches[l].k)
                       /\ Len(kv_caches'[l].v) = Len(kv_caches[l].v)
                  ELSE /\ KeptSlots(kv_caches'[l].k, kv_caches[l].k, last'.input_pos)
                       /\ KeptSlots(kv_caches'[l].v, kv_caches[l].v, last'.input_pos)
       /\ (last'.op = "reset_cache" /\ last' # last) => kv_caches' = <<>>
      ]_vars

\* C4 witness: a decode call has just built the caches after a reset_cache that
\* emptied caches built by an earlier decode call
C4_Witness ==
    /\ last.op = "forward" /\ last.status = "ok" /\ last.built
    /\ last.builds = 2
    /\ Len(kv_caches) = NLayer

\* the logits at the positions up to i of the full-sequence call of the step do
\* not depend on the tokens after i: any other idx that agrees with the call's on
\* the positions up to i (so at least on the first) gives, from the same model
\* state, the same logits there
CausalStep ==
    \A other \in {o \in InputsOfLen(Len(last'.idx)) : o[1] = last'.idx[1] /\ o # last'.idx} :
        \E alt \in {Forward(modelState, other, last'.msl, None).logits} :
            \A i \in 1..Len(last'.idx) :
                (\A j \in 1..i : other[j] = last'.idx[j]) => alt[i] = last'.logits[i]

\* C5 as stated: for every full-sequence call, the first call made to the model
\* included, the output at position i depends only on the inputs at positions <= i.
C5_CausalOnEveryCall == [][(FullStep /\ last'.status = "ok") => CausalStep]_vars

\* C5 amended: the same for every full-sequence call made when every spiking
\* activation of the model already has its alpha initialised.
C5_CausalOnceInitialized ==
    [][(FullStep /\ last'.status = "ok" /\ AllInitialized(acts)) => CausalStep]_vars

\* C5 witness: a full-sequence call over three tokens returned on a model whose
\* activations were all initialised before it
C5_Witness ==
    /\ last.op = "forward" /\ last.input_pos = None /\ last.status = "ok"
    /\ last.warm /\ Len(last.idx) = 3

\* C12: whenever the mask cache exists it is the block_size x block_size
\* lower-triangular boolean matrix, entry [i, j] True exactly when j <= i,
\* after any sequence of forward calls in either mode and of cache resets: the
\* fill that attention applies to a boolean mask stays in the call's selection.
C12_MaskCacheLowerTriangular ==
    mask_cache # None =>
        /\ Len(mask_cache) = BlockSize
        /\ \A i \in 1..BlockSize :
              /\ Len(mask_cache[i]) = BlockSize
              /\ \A j \in 1..BlockSize : mask_cache[i][j] <=> (j <= i)

\* C12 witness: a second decode call has returned whose selection of the mask
\* cache held a False entry (a key position after the query's) and came out of
\* attention all True, on a mask cache built by the call before it
C12_Witness ==
    /\ last.op = "forward" /\ last.status = "ok" /\ last.input_pos # None
    /\ calls = 2 /\ last.builds = 1 /\ ~last.built
    /\ last.input_pos[1] + 1 < Min(EffectiveMax(last.msl), BlockSize)
    /\ last.mask.kind = "bool"
    /\ \A t \in 1..Len(last.mask.m) : \A j \in 1..Len(last.mask.m[t]) : last.mask.m[t][j]
    /\ mask_cache # None

----------------------------------------------------------------------------
(* A stand-alone ParamHeaveside instance of NEmbd channels *)

\* the rows of an input batch: negative, zero and positive elements
Rows == {<<-1, 0>>, <<0, 2>>, <<2, 0>>, <<2, 2>>}

\* the input batches: 1 to MaxRows rows of NEmbd channels
Batches == UNION {[1..n -> Rows] : n \in 1..MaxRows}

\* values of the learnable zero_point: as constructed, and after training
ZeroPoints == {<<0, 0>>, <<1, -1>>}

\* the tensors handed to a direct call of _initialize
InitTensors == {<<0, 0>>, <<2, 3>>}

\* the model instance, unused
ModelIdle == ModelInit /\ device = "cpu"

\* ParamHeaveside.__init__; nothing has been called yet
InitAct ==
    /\ ModelIdle /\ IdleSd /\ IdleIw
    /\ \E beta \in ZeroPoints : ph = NewParamHeaveside(NEmbd, beta)
    /\ phCall = [op |-> "none", forwards |-> 0, direct |-> FALSE, refused |-> FALSE]

\* ParamHeaveside.forward(x).  phCall records the call, its result, whether it
\* ran the lazy initialisation, and, of the calls so far: the number of forward
\* calls (counted up to 2), whether a direct _initialize succeeded, whether one
\* was refused.
ParamHeaveside_forward(x) ==
    /\ \E r \in {Heaveside(ph, x)} :
        /\ ph' = r.a
        /\ phCall' = [op |-> "forward", x |-> x,
                      status |-> IF r.ok THEN "ok" ELSE "AssertionError",
                      out |-> IF r.ok THEN r.out ELSE None,
                      lazy |-> NeedsInit(ph),
                      forwards |-> Min(phCall.forwards + 1, 2),
                      direct |-> phCall.direct, refused |-> phCall.refused]
    /\ UNCHANGED <<modelVars, sd, iw>>

\* a direct call embed_scale._initialize(init_tensor)
AlphaInit_initialize(init_tensor) ==
    /\ \E r \in {initialize(ph, init_tensor)} :
        /\ ph' = r.a
        /\ phCall' = [op |-> "_initialize", x |-> init_tensor,
                      status |-> IF r.ok THEN "ok" ELSE "AssertionError",
                      out |-> None,
                      lazy |-> FALSE,
                      forwards |-> phCall.forwards,
                      direct |-> phCall.direct \/ r.ok,
                      refused |-> phCall.refused \/ ~r.ok]
    /\ UNCHANGED <<modelVars, sd, iw>>

NextAct ==
    \/ \E x \in Batches : ParamHeaveside_forward(x)
    \/ \E t \in InitTensors : AlphaInit_initialize(t)

SpecAct == InitAct /\ [][NextAct]_vars

----------------------------------------------------------------------------
(* Properties of the activation specification SpecAct *)

\* a step that is a call of ParamHeaveside.forward / of _initialize
PhForwardStep == phCall'.op = "forward"
PhDirectStep  == phCall'.op = "_initialize"

\* C7: alpha is initialised from the input statistics once, by the first forward
\* call through the instance: that call sets the flag, which never goes back to
\* False; a forward call on an initialised instance leaves alpha as it is; a
\* direct _initialize of an initialised alpha fails with AssertionError and
\* changes nothing.
C7_InitializedOnce ==
    [][/\ (PhForwardStep /\ ~ph.initialized) =>
            /\ phCall'.status = "ok"
            /\ ph'.initialized
            /\ ph'.alpha = InitVal(phCall'.x, NEmbd)
            /\ ph'.inits = ph.inits + 1
       /\ (PhForwardStep /\ ph.initialized) =>
            /\ phCall'.status = "ok"
            /\ ph' = ph
       /\ ph.initialized => ph'.initialized
       /\ (PhDirectStep /\ ph.initialized) =>
            /\ phCall'.status = "AssertionError"
            /\ ph' = ph
       /\ (PhForwardStep /\ ~phCall.direct) =>
            (phCall.forwards = 0 <=> ph'.inits = ph.inits + 1)
       /\ ph'.inits <= 1
      ]_vars

\* C7 witness: a second forward call returned on an instance that the first
\* forward call initialised from its input and on which a direct _initialize
\* was refused
C7_Witness ==
    /\ phCall.op = "forward" /\ phCall.status = "ok"
    /\ phCall.forwards = 2 /\ ~phCall.lazy
    /\ phCall.refused /\ ~phCall.direct
    /\ ph.initialized /\ ph.inits = 1
    /\ \E c \in 1..NEmbd : ph.alpha[c] > 1

\* C9 as stated: every output element is 0 or the alpha of its channel, and it
\* is equal to alpha exactly when the input minus beta is strictly positive.
C9_AlphaIffPositive ==
    (phCall.op = "forward" /\ phCall.status = "ok") =>
        \A r \in 1..Len(phCall.x) : \A c \in 1..NEmbd :
            /\ phCall.out[r][c] \in {0, ph.alpha[c]}
            /\ phCall.out[r][c] = ph.alpha[c] <=> phCall.x[r][c] - ph.beta[c] > 0

\* C9 amended: every output element is the alpha of its channel (as it is after
\* the call) where the input minus beta is strictly positive, and 0 elsewhere.
C9_AlphaWherePositive ==
    (phCall.op = "forward" /\ phCall.status = "ok") =>
        \A r \in 1..Len(phCall.x) : \A c \in 1..NEmbd :
            phCall.out[r][c] = IF phCall.x[r][c] - ph.beta[c] > 0
                               THEN ph.alpha[c] ELSE 0

\* C9 witness: a forward call that ran the lazy initialisation returned a batch
\* holding both a zero and the freshly initialised alpha of a channel
C9_Witness ==
    /\ phCall.op = "forward" /\ phCall.status = "ok" /\ phCall.lazy
    /\ \E c \in 1..NEmbd :
          /\ ph.alpha[c] > 1
          /\ \E r1, r2 \in 1..Len(phCall.x) :
                phCall.out[r1][c] = 0 /\ phCall.out[r2][c] = ph.alpha[c]

----------------------------------------------------------------------------
(* One call of scaled_dot_product_attention on one head *)

\* the rows of q and of k
QKRows == {<<2, 0>>, <<0, 2>>}

\* q, k: 1 to MaxRows rows of HeadSize elements
QKTensors == UNION {[1..n -> QKRows] : n \in 1..MaxRows}

\* v for S keys
VTensor(S) == [j \in 1..S |-> <<j, 1>>]

\* the masks a call on L queries and S keys can be given: none, a boolean
\* tensor, or a float tensor of zeros and -inf
Masks(L, S) ==
    {[kind |-> "none", m |-> None]}
    \cup {[kind |-> "bool", m |-> m] : m \in [1..L -> [1..S -> BOOLEAN]]}
    \cup {[kind |-> "float", m |-> m] : m \in [1..L -> [1..S -> {0, NegInf}]]}

\* the arguments of the call are chosen
InitAttn ==
    /\ ModelIdle /\ IdlePh /\ IdleIw
    /\ \E q \in QKTensors, k \in QKTensors :
          \E mask \in Masks(Len(q), Len(k)) :
              sd = [op |-> "args", q |-> q, k |-> k, v |-> VTensor(Len(k)),
                    mask |-> mask]

\* the call is made: sd keeps the arguments as they were and the results
sdpa ==
    /\ sd.op = "args"
    /\ \E r \in {scaled_dot_product_attention(sd.q, sd.k, sd.v, sd.mask)} :
          sd' = [op |-> "scaled_dot_product_attention", q |-> sd.q, k |-> sd.k,
                 v |-> sd.v, mask |-> sd.mask, attn_weight |-> r.attn_weight,
                 y |-> r.y, mask_after |-> r.mask]
    /\ UNCHANGED <<modelVars, ph, phCall, iw>>

NextAttn == sdpa

SpecAttn == InitAttn /\ [][NextAttn]_vars

----------------------------------------------------------------------------
(* Properties of the attention specification SpecAttn *)

\* the (query i, key j) pair is masked by the mask of the call
Masked(mask, i, j) ==
    CASE mask.kind = "none"  -> j > i
      [] mask.kind = "bool"  -> ~mask.m[i][j]
      [] mask.kind = "float" -> mask.m[i][j] = NegInf

\* C6: after a call of scaled_dot_product_attention the attention weight of
\* every masked (query, key) pair is exactly zero, whichever of the three forms
\* the mask has.
C6_MaskedWeightZero ==
    sd.op = "scaled_dot_product_attention" =>
        \A i \in 1..Len(sd.q) : \A j \in 1..Len(sd.k) :
            Masked(sd.mask, i, j) => sd.attn_weight[i][j] = 0

\* C6 without the boolean form: the same for no mask and for a float mask
C6_MaskedWeightZeroNoneFloat ==
    (sd.op = "scaled_dot_product_attention" /\ sd.mask.kind # "bool") =>
        \A i \in 1..Len(sd.q) : \A j \in 1..Len(sd.k) :
            Masked(sd.mask, i, j) => sd.attn_weight[i][j] = 0

\* C6, the failing call: a call with a boolean mask has returned a positive
\* weight for a pair where the mask is False
C6_WitnessBool ==
    /\ sd.op = "scaled_dot_product_attention" /\ sd.mask.kind = "bool"
    /\ \E i \in 1..Len(sd.q) : \E j \in 1..Len(sd.k) :
          ~sd.mask.m[i][j] /\ sd.attn_weight[i][j] > 0

\* a call with a float mask has returned where a masked pair has a positive
\* raw score
C6_WitnessFloat ==
    /\ sd.op = "scaled_dot_product_attention" /\ sd.mask.kind = "float"
    /\ \E i \in 1..Len(sd.q) : \E j \in 1..Len(sd.k) :
          Masked(sd.mask, i, j) /\ Dot(sd.q[i], sd.k[j]) > 0

----------------------------------------------------------------------------
(* One call of QuantGPT.forward over the whole space of its arguments *)

\* The model instance before the call: as constructed, or after one decode call
\* (token 1 at position 0) has built its caches and initialised its activations.
InitArgs ==
    /\ IdlePh /\ IdleSd /\ IdleIw
    /\ device \in {"cpu", "xla"}
    /\ sess = [valid |-> FALSE, toks |-> <<>>, outs |-> <<>>]
    /\ \E fresh \in {[rope_cache |-> None, mask_cache |-> None, kv_caches |-> <<>>,
                      acts |-> FreshActs]} :
          \E m \in {[status |-> "none"] @@ fresh, Forward(fresh, <<1>>, None, <<0>>)} :
              /\ rope_cache = m.rope_cache
              /\ mask_cache = m.mask_cache
              /\ kv_caches = m.kv_caches
              /\ acts = m.acts
              /\ calls = (IF m.status = "none" THEN 0 ELSE 1)
              /\ last = [op |-> "none", builds |-> IF m.status = "none" THEN 0 ELSE 1]

\* one call, with any idx of up to BlockSize + 1 tokens, any max_seq_length
\* argument up to BlockSize + 1 or none, in either mode
NextArgs ==
    /\ last.op = "none"
    /\ \E idx \in AllInputs, msl \in AllMaxSeqArgs :
          \/ forward(idx, msl, None)
          \/ \E p \in 0..BlockSize : forward(idx, msl, Arange(p, Len(idx)))

SpecArgs == InitArgs /\ [][NextArgs]_vars

----------------------------------------------------------------------------
(* Properties of the argument specification SpecArgs *)

\* C8: a forward call raises AssertionError and returns no logits whenever
\* (a) input_pos is given and T > max_seq_length, or (b) max_seq_length >
\* block_size, or (c) T > block_size; a call without max_seq_length ends as the
\* same call with max_seq_length = block_size does.
C8_AssertionsFailFast ==
    [][ForwardStep =>
          LET T   == Len(last'.idx)
              msl == EffectiveMax(last'.msl)
          IN  /\ (\/ last'.input_pos # None /\ T > msl
                  \/ msl > BlockSize
                  \/ T > BlockSize)
                    => (last'.status = "AssertionError" /\ last'.logits = None)
              /\ last'.msl = None =>
                    \E alt \in {Forward(modelState, last'.idx, <<BlockSize>>,
                                        last'.input_pos)} :
                        /\ last'.status = alt.status
                        /\ last'.logits = alt.logits
                        /\ kv_caches' = alt.kv_caches
      ]_vars

\* C8 witness: a call with max_seq_length above the block size, and nothing else
\* wrong with it, has been refused on a model whose caches were built
C8_Witness ==
    /\ last.op = "forward" /\ last.status = "AssertionError"
    /\ last.input_pos # None
    /\ EffectiveMax(last.msl) > BlockSize
    /\ Len(last.idx) <= BlockSize
    /\ kv_caches # <<>>

\* the arguments of the call just made fail one of the three assertions
FailsAnAssertion ==
    \/ last'.input_pos # None /\ Len(last'.idx) > EffectiveMax(last'.msl)
    \/ EffectiveMax(last'.msl) > BlockSize
    \/ Len(last'.idx) > BlockSize

\* C11: a forward call whose arguments fail one of the three assertions
\* (input_pos given and T > max_seq_length, max_seq_length > block_size,
\* T > block_size) raises AssertionError and leaves rope_cache, mask_cache and
\* kv_caches exactly as they were before the call.
C11_FailedAssertionLeavesCaches ==
    [][ForwardStep /\ FailsAnAssertion =>
          /\ last'.status = "AssertionError"
          /\ rope_cache' = rope_cache
          /\ mask_cache' = mask_cache
          /\ kv_caches' = kv_caches
      ]_vars

\* C11 witness: a decode call has been refused by an assertion on a model with
\* no cache built yet, where the call would otherwise have built the rope
\* cache and the mask cache
C11_Witness ==
    /\ last.op = "forward" /\ last.status = "AssertionError"
    /\ last.input_pos # None
    /\ calls = 1
    /\ rope_cache = None /\ mask_cache = None /\ kv_caches = <<>>

\* a full-sequence call has been refused by an assertion on a model whose
\* caches were built by an earlier decode call
C11_WitnessBuilt ==
    /\ last.op = "forward" /\ last.status = "AssertionError"
    /\ last.input_pos = None
    /\ rope_cache # None /\ mask_cache # None /\ kv_caches # <<>>

----------------------------------------------------------------------------
(* Weight initialisation: model.apply(model._init_weights) over the module tree *)

\* A module is [name, cls, bias]: its attribute name in its parent, its class,
\* and, for a linear layer, whether it has a bias.
Module(name, cls, bias) == [name |-> name, cls |-> cls, bias |-> bias]

\* The child modules a module registers in its __init__, in order.  cfg holds
\* config.bias and config.shared_attention_norm.
Children(mod, cfg) ==
    CASE mod.cls = "QuantGPT" ->
            << Module("lm_head", "Linear", FALSE),
               Module("transformer", "ModuleDict", FALSE) >>
      [] mod.cls = "ModuleDict" ->
            << Module("wte", "Embedding", FALSE),
               Module("h", "ModuleList", FALSE),
               Module("ln_f", "norm_class", FALSE) >>
      [] mod.cls = "ModuleList" ->
            [l \in Layers |-> Module(ToString(l - 1), "Block", FALSE)]
      [] mod.cls = "Block" ->
            << Module("norm_1", "MyNorm", FALSE),
               Module("attn", "CausalSelfAttention", FALSE) >>
            \o (IF cfg.shared_attention_norm THEN <<>>
                ELSE << Module("norm_2", "MyNorm", FALSE) >>)
            \o << Module("mlp", "GptNeoxMLP", FALSE) >>
      [] mod.cls = "CausalSelfAttention" ->
            << Module("attn", "Linear", cfg.bias),
               Module("encoder_input", "ParamHeaveside", FALSE),
               Module("encoder_k", "ParamHeaveside", FALSE),
               Module("encoder_q", "ParamHeaveside", FALSE),
               Module("encoder_output", "ParamHeaveside", FALSE),
               Module("proj", "NormedLinear", cfg.bias) >>
      [] mod.cls = "GptNeoxMLP" ->
            << Module("fc", "Linear", cfg.bias),
               Module("act2", "ParamHeaveside", FALSE),
               Module("act1", "ParamHeaveside", FALSE),
               Module("proj", "NormedLinear", cfg.bias) >>
      [] OTHER -> <<>>

\* The parameters a module registers itself, by name
OwnParameters(mod) ==
    CASE mod.cls = "Linear" ->
            {<<"weight">>} \cup (IF mod.bias THEN {<<"bias">>} ELSE {})
      [] mod.cls = "NormedLinear" ->
            {<<"weight">>, <<"scale">>} \cup (IF mod.bias THEN {<<"bias">>} ELSE {})
      [] mod.cls = "Embedding" -> {<<"weight">>}
      [] mod.cls = "ParamHeaveside" -> {<<"zero_point">>, <<"embed_scale">>}
      [] OTHER -> {}

RECURSIVE NamedParameters(_, _)
\* module.named_parameters(): the names, relative to the module, of its own
\* parameters and of those of its descendants; "proj.weight" is <<"proj", "weight">>
NamedParameters(mod, cfg) ==
    OwnParameters(mod) \cup
    UNION { {<<Children(mod, cfg)[n].name>> \o name :
                name \in NamedParameters(Children(mod, cfg)[n], cfg)} :
            n \in 1..Len(Children(mod, cfg)) }

RECURSIVE ApplyOrder(_, _, _)
\* nn.Module.apply(fn): fn is applied to the children, in order, each with its
\* own descendants first, and then to the module itself.  The visits, in order,
\* as [path, mod].
ApplyOrder(path, mod, cfg) ==
    LET kids == Children(mod, cfg)
        below[n \in 0..Len(kids)] ==
            IF n = 0 THEN <<>>
            ELSE below[n - 1] \o ApplyOrder(path \o <<kids[n].name>>, kids[n], cfg)
    IN  below[Len(kids)] \o << [path |-> path, mod |-> mod] >>

Root == Module("", "QuantGPT", FALSE)

\* isinstance(module, nn.Linear): NormedLinear is a subclass of nn.Linear
IsLinear(mod) == mod.cls \in {"Linear", "NormedLinear"}

\* the condition of line 167 on a named parameter of the visited module
RescaleCondition(mod, name) ==
    \/ name = <<"proj", "weight">> /\ mod.cls = "LLaMAMLP"
    \/ name = <<"w3", "weight">> /\ mod.cls = "SwiGLU"
    \/ name = <<"proj", "weight">> /\ mod.cls = "CausalSelfAttention"

\* QuantGPT._init_weights(module, n_layer) for the module at path.  log maps
\* each parameter of the model to the initialisations applied to it so far:
\* "general" is normal_ with std sqrt(2 / 5 / n_embd), "zeros" is zeros_,
\* "rescaled" is normal_ with std 1 / sqrt(n_embd) / n_layer.
init_weights(log, path, mod, cfg) ==
    [p \in DOMAIN log |->
        log[p]
        \o (IF (mod.cls = "Embedding" \/ IsLinear(mod)) /\ p = path \o <<"weight">>
            THEN <<"general">> ELSE <<>>)
        \o (IF mod.cls # "Embedding" /\ IsLinear(mod) /\ mod.bias /\ p = path \o <<"bias">>
            THEN <<"zeros">> ELSE <<>>)
        \o (IF \E name \in NamedParameters(mod, cfg) :
                  p = path \o name /\ RescaleCondition(mod, name)
            THEN <<"rescaled">> ELSE <<>>)]

Configs == [bias : BOOLEAN, shared_attention_norm : BOOLEAN]

\* a model has been constructed; apply has visited nothing yet
InitW ==
    /\ ModelIdle /\ IdlePh /\ IdleSd
    /\ \E cfg \in Configs :
          iw = [op |-> "apply", cfg |-> cfg,
                todo |-> ApplyOrder(<<>>, Root, cfg),
                log |-> [p \in NamedParameters(Root, cfg) |-> <<>>]]

\* apply visits the next module
apply_init_weights ==
    /\ iw.todo # <<>>
    /\ iw' = [iw EXCEPT !.todo = Tail(iw.todo),
                        !.log = init_weights(iw.log, Head(iw.todo).path,
                                             Head(iw.todo).mod, iw.cfg)]
    /\ UNCHANGED <<modelVars, ph, phCall, sd>>

NextW == apply_init_weights

SpecInitW == InitW /\ [][NextW]_vars

----------------------------------------------------------------------------
(* Properties of the initialisation specification SpecInitW *)

\* the output-projection weight of the attention / feed-forward part of layer l
AttnProjWeight(l) == <<"transformer", "h", ToString(l - 1), "attn", "proj", "weight">>
MlpProjWeight(l)  == <<"transformer", "h", ToString(l - 1), "mlp", "proj", "weight">>

\* the last initialisation applied to a parameter was the rescaled draw, and
\* the general draw was applied to it before
RescaledLast(inits) ==
    /\ inits # <<>>
    /\ inits[Len(inits)] = "rescaled"
    /\ \E n \in 1..(Len(inits) - 1) : inits[n] = "general"

\* C10: once apply has visited every module, the output-projection weight of
\* the attention block and of the feed-forward block of every layer has been
\* redrawn with std 1 / (sqrt(n_embd) * n_layer), last, after the general draw.
C10_ProjectionsRescaledLast ==
    (iw.op = "apply" /\ iw.todo = <<>>) =>
        \A l \in Layers :
            /\ RescaledLast(iw.log[AttnProjWeight(l)])
            /\ RescaledLast(iw.log[MlpProjWeight(l)])

\* C10 for the attention blocks alone
C10_AttentionProjectionsRescaledLast ==
    (iw.op = "apply" /\ iw.todo = <<>>) =>
        \A l \in Layers : RescaledLast(iw.log[AttnProjWeight(l)])

\* apply has visited every module: every attention projection got both draws,
\* every feed-forward projection only the general one
C10_WitnessDone ==
    /\ iw.op = "apply" /\ iw.todo = <<>>
    /\ \A l \in Layers :
          /\ iw.log[AttnProjWeight(l)] = <<"general", "rescaled">>
          /\ iw.log[MlpProjWeight(l)] = <<"general">>

============================================================================
